---- MODULE Spec2Model ----
(***************************************************************************)
(* Model of importer/__init__.py: validate_json, get_labels, create_issue  *)
(* and import_comments, run repeatedly in one process against a tracker    *)
(* whose responses are chosen nondeterministically.                        *)
(*                                                                         *)
(* Control leaves the program only at network calls (requests.get and      *)
(* requests.post block until the response), so there is one action per     *)
(* stretch of code between two responses.  `trace` records, in program     *)
(* order, every request, response, sleep and printed report of the         *)
(* current validate_json call.                                             *)
(***************************************************************************)
EXTENDS Integers, Sequences, FiniteSets, TLC

\* ---------------------------------------------------------------- bounds
MaxRuns == 2          \* validate_json calls made in one process
MaxComments == 2      \* longest comments array tried
MaxLabels == 2        \* longest labels array tried

\* ------------------------------------------------------------- constants
OAUTH_TOKEN == "secret"
REPO_PATH == "owner/repo"
REPO_URI == <<"https://api.github.com/repos", REPO_PATH>>
LABEL_VALIDATION_ERROR == "You attempted to create an issue with an unknown label."

\* Labels that may exist on the tracker, and the label lists the labels
\* endpoint may answer with (get_labels returns the names as a list; only
\* membership matters to the enum).
AllLabels == {"bug", "ui"}
LabelSets == (SUBSET AllLabels) \ {{}}
\* Status codes a POST may be answered with, and issue numbers the tracker
\* may assign.
Statuses == {200, 201, 422}
IssueNumbers == {41, 42}

\* ------------------------------------------------------------ JSON values
JStr(s) == [t |-> "string", v |-> s]
JNum == [t |-> "number", v |-> "7"]
JArr(s) == [t |-> "array", v |-> s]
Missing == [t |-> "missing", v |-> ""]

ScalarKeys == {"url", "browser", "os", "body", "title"}
ArrayKeys == {"labels", "comments"}
Keys == ScalarKeys \cup ArrayKeys

SeqsUpTo(S, n) == UNION {[1..k -> S] : k \in 0..n}

GoodScalars ==
    [url |-> JStr("U"), browser |-> JStr("B"), os |-> JStr("O"),
     body |-> JStr("X"), title |-> JStr("T")]

\* The five string fields: all well-formed, or one of them absent or not a
\* string.
ScalarVariants ==
    {GoodScalars} \cup
    {[GoodScalars EXCEPT ![k] = x] : k \in ScalarKeys, x \in {Missing, JNum}}

LabelVariants ==
    {Missing, JNum, JArr(<<JNum>>)} \cup
    {JArr(s) : s \in SeqsUpTo({JStr(l) : l \in AllLabels}, MaxLabels)}

CommentVariants ==
    {Missing, JNum, JArr(<<JNum>>)} \cup
    {JArr(s) : s \in SeqsUpTo({JStr("c1"), JStr("c2")}, MaxComments)}

\* json.load's result: a mapping from the keys present to their values.
MakeDoc(sc, lab, com) ==
    LET all == [k \in Keys |->
                   IF k = "labels" THEN lab
                   ELSE IF k = "comments" THEN com
                   ELSE sc[k]]
        present == {k \in Keys : all[k].t # "missing"}
    IN  [k \in present |-> all[k]]

Descriptors ==
    {MakeDoc(sc, lab, com) :
        sc \in ScalarVariants, lab \in LabelVariants, com \in CommentVariants}

\* ------------------------------------------------------------------ state
VARIABLES
    schema,       \* schema['properties']['labels']['items'] (module level)
    pc,           \* where the current validate_json call is
    json_data,    \* the descriptor being imported
    skip_labels,  \* validate_json's flag
    trace,        \* requests, responses, sleeps and reports of this call
    number,       \* import_comments' issue number
    it,           \* how many items the comments iterator has yielded
    depth,        \* add_comment calls that have not returned yet
    ret,          \* create_issue's return value
    runs          \* validate_json calls started so far

vars == <<schema, pc, json_data, skip_labels, trace, number, it, depth, ret,
          runs>>

NoDoc == [k \in {} |-> Missing]

\* ----------------------------------------------------------------- events
Get(uri) == <<"GET", uri, "none">>
Post(uri, body, auth) == <<"POST", uri, body, auth>>
Resp(status, payload) == <<"resp", status, payload>>
Sleep(n) == <<"sleep", n>>
Report(kind, arg) == <<"print", kind, arg>>

LabelsUri == REPO_URI \o <<"labels">>
IssuesUri == REPO_URI \o <<"issues">>
\* Variant: the issue number is not substituted into the URI.
CommentsUri_unnumbered(n) == REPO_URI \o <<"issues", 0, "comments">>

CommentsUri(n) == REPO_URI \o <<"issues", n, "comments">>

IssueHtmlUrl(n) == <<"html", n>>
CommentHtmlUrl(n, i) == <<"html", n, i>>

\* Response bodies (r.json()) of the three endpoints; the body of an error
\* response is not read by the program.
LabelsJson(L) == [labels |-> L]
IssueJson(n) == [number |-> n, html_url |-> IssueHtmlUrl(n)]
CommentJson(n, i) == [html_url |-> CommentHtmlUrl(n, i)]
ErrorJson == [message |-> "error"]

\* ------------------------------------------------------------- validation
\* The errors jsonschema finds in document d under the schema whose label
\* items are constrained by `items`.  An error's path is the path to the
\* failing instance: empty for a missing required property.
Errors(d, items) ==
    {[path |-> <<>>, validator |-> "required", key |-> k] :
        k \in Keys \ DOMAIN d}
    \cup
    {[path |-> <<k>>, validator |-> "type", key |-> k] :
        k \in {x \in ScalarKeys \cap DOMAIN d : d[x].t # "string"}}
    \cup
    {[path |-> <<k>>, validator |-> "type", key |-> k] :
        k \in {x \in ArrayKeys \cap DOMAIN d : d[x].t # "array"}}
    \cup
    UNION {{[path |-> <<k, i - 1>>, validator |-> "type", key |-> k] :
              i \in {j \in 1..Len(d[k].v) : d[k].v[j].t # "string"}} :
           k \in {x \in ArrayKeys \cap DOMAIN d : d[x].t = "array"}}
    \cup
    (IF "labels" \in DOMAIN d /\ d["labels"].t = "array"
        /\ "enum" \in DOMAIN items
     THEN {[path |-> <<"labels", i - 1>>, validator |-> "enum",
            key |-> "labels"] :
              i \in {j \in 1..Len(d["labels"].v) :
                       \/ d["labels"].v[j].t # "string"
                       \/ d["labels"].v[j].v \notin items.enum}}
     ELSE {})

\* ------------------------------------------------------------- formatting
\* Variant: the browser and os arguments of format() are swapped.
get_issue_body_swapped(d) ==
    << <<"", "">>,
       <<"**URL**: ", d["url"].v>>,
       <<"**Browser / Version**: ", d["os"].v>>,
       <<"**Operating System**: ", d["browser"].v>>,
       <<"", "">>,
       <<"", d["body"].v>> >>

\* The formatted body, line by line; each line is the template's fixed
\* text followed by the value substituted into it.
get_issue_body(d) ==
    << <<"", "">>,
       <<"**URL**: ", d["url"].v>>,
       <<"**Browser / Version**: ", d["browser"].v>>,
       <<"**Operating System**: ", d["os"].v>>,
       <<"", "">>,
       <<"", d["body"].v>> >>

format_post_body(d) ==
    [body |-> get_issue_body(d),
     title |-> d["title"].v,
     labels |-> [i \in 1..Len(d["labels"].v) |-> d["labels"].v[i].v]]

\* Variant: the headers are left out of the request.
api_post_no_headers(uri, body) == Post(uri, body, "none")

\* The request api_post sends: the Authorization header carries the token.
api_post(uri, body) == Post(uri, body, OAUTH_TOKEN)

\* Variant: any 2xx status counts as created.
issue_created_2xx(status) == status \in 200..299

\* Variant: the test is inverted.
issue_created_inverted(status) == status # 201

\* create_issue's test of the issue POST's status (negated in the code).
issue_created(status) == status = 201

\* Variant: the status is not tested, the chain goes on after a failure.
comment_created_any(status) == TRUE

\* Variant: any 2xx status counts as created.
comment_created_2xx(status) == status \in 200..299

\* next_comment's test of a comment POST's status.
comment_created(status) == status = 201

\* Variant: import_comments is called whatever the list's length.
has_comments_always(comments) == TRUE

\* create_issue's test before calling import_comments.
has_comments(comments) == Len(comments) > 0

\* Variant: StopIteration one item early.
exhausted_early(comments, i) == i + 1 >= Len(comments)

\* comments.next() raises StopIteration once the iterator has yielded
\* every item.
exhausted(comments, i) == i >= Len(comments)

\* Variant: the iterator walks the list from its end.
comments_next_reversed(comments, i) == comments[Len(comments) - i].v

\* comments.next() on the iterator that has already yielded i items.
comments_next(comments, i) == comments[i + 1].v

\* Variant: the previous add_comment has returned before the next one is
\* called, as in a loop.
pending_after_hook_post_loop(d) == d

\* next_comment calls add_comment from inside the requests.post of the
\* add_comment before it, which is still pending: d calls become d + 1.
pending_after_hook_post(d) == d + 1

\* Variant: no pause before the POST.
add_comment_no_sleep(issue_number, comment) ==
    <<api_post(CommentsUri(issue_number), [body |-> comment])>>

\* add_comment: the pause, then the POST of one comment.
add_comment(issue_number, comment) ==
    <<Sleep(1), api_post(CommentsUri(issue_number), [body |-> comment])>>

\* Variant: the label message is chosen by the failing property's name.
ReportValidationError_by_key(e) ==
    <<Report("validation_failed", "")>> \o
    (IF e.key = "labels"
     THEN <<Report("label_validation_error", LABEL_VALIDATION_ERROR),
            Report("message", e)>>
     ELSE <<Report("raw_error", e)>>)

\* The except branch of validate_json for the raised error e.
ReportValidationError(e) ==
    <<Report("validation_failed", "")>> \o
    (IF e.path # <<>> /\ Head(e.path) = "labels"
     THEN <<Report("label_validation_error", LABEL_VALIDATION_ERROR),
            Report("message", e)>>
     ELSE <<Report("raw_error", e)>>)

\* Variant: the fetched names are added to the enum already there.
update_enum_merge(items, L) ==
    [type |-> items.type,
     enum |-> IF "enum" \in DOMAIN items THEN items.enum \cup L ELSE L]

\* Variant: the enum is set on a copy, the shared schema stays as it was.
update_enum_on_copy(items, L) == items

\* schema['properties']['labels']['items'].update(enum=get_labels())
update_enum(items, L) == [type |-> items.type, enum |-> L]

\* ---------------------------------------------------------------- actions
Init ==
    /\ schema = [type |-> "string"]
    /\ pc = "idle"
    /\ json_data = NoDoc
    /\ skip_labels = FALSE
    /\ trace = <<>>
    /\ number = 0
    /\ it = 0
    /\ depth = 0
    /\ ret = "none"
    /\ runs = 0

\* Variant: validation errors found in the comments property are ignored.
ValidateAndCreate_comments_unchecked(d, items, tr) ==
    IF {e \in Errors(d, items) : e.key # "comments"} = {}
    THEN /\ trace' = tr \o <<api_post(IssuesUri, format_post_body(d))>>
         /\ pc' = "issue_post"
    ELSE \E e \in Errors(d, items) :
            /\ trace' = tr \o ReportValidationError(e)
            /\ pc' = "returned"

\* jsonschema.validate(json_data, schema) followed by create_issue up to
\* its POST, or by the except branch.  tr is the trace so far, items the
\* label-item schema in force.
ValidateAndCreate(d, items, tr) ==
    IF Errors(d, items) = {}
    THEN /\ trace' = tr \o <<api_post(IssuesUri, format_post_body(d))>>
         /\ pc' = "issue_post"
    ELSE \E e \in Errors(d, items) :
            /\ trace' = tr \o ReportValidationError(e)
            /\ pc' = "returned"

\* validate_json(issue_file, skip_labels) is called.
validate_json(d, skip) ==
    /\ pc = "idle"
    /\ runs < MaxRuns
    /\ runs' = runs + 1
    /\ json_data' = d
    /\ skip_labels' = skip
    /\ number' = 0 /\ it' = 0 /\ depth' = 0 /\ ret' = "none"
    /\ IF skip
       THEN /\ ValidateAndCreate(d, schema, <<>>)
            /\ UNCHANGED schema
       ELSE /\ trace' = <<Get(LabelsUri)>>
            /\ pc' = "get_labels"
            /\ UNCHANGED schema

\* get_labels' GET is answered with the label list L.
get_labels(L) ==
    /\ pc = "get_labels"
    /\ schema' = update_enum(schema, L)
    /\ ValidateAndCreate(json_data, schema',
                         trace \o <<Resp(200, LabelsJson(L))>>)
    /\ UNCHANGED <<json_data, skip_labels, number, it, depth, ret, runs>>

\* The issue POST is answered: the rest of create_issue, and
\* import_comments up to its first POST.
create_issue(status, n) ==
    /\ pc = "issue_post"
    /\ IF ~issue_created(status)
       THEN /\ trace' = trace \o
                  <<Resp(status, ErrorJson), Report("error", status)>>
            /\ ret' = "False"
            /\ pc' = "returned"
            /\ UNCHANGED <<number, it, depth>>
       ELSE IF has_comments(json_data["comments"].v)
               /\ exhausted(json_data["comments"].v, 0)
       THEN \* import_comments' own comments.next() raises StopIteration,
            \* which nothing catches.
            /\ trace' = trace \o
                  <<Resp(status, IssueJson(n)),
                    Report("imported", IssueJson(n).html_url),
                    Report("importing_comments", "")>>
            /\ number' = n
            /\ pc' = "raised"
            /\ UNCHANGED <<it, depth, ret>>
       ELSE IF has_comments(json_data["comments"].v)
       THEN /\ trace' = trace \o
                  <<Resp(status, IssueJson(n)),
                    Report("imported", IssueJson(n).html_url),
                    Report("importing_comments", "")>> \o
                  add_comment(IssueJson(n).number,
                              comments_next(json_data["comments"].v, 0))
            /\ number' = n
            /\ it' = 1
            /\ depth' = 1
            /\ pc' = "comment_post"
            /\ UNCHANGED ret
       ELSE /\ trace' = trace \o
                  <<Resp(status, IssueJson(n)),
                    Report("imported", IssueJson(n).html_url)>>
            /\ ret' = "True"
            /\ pc' = "returned"
            /\ UNCHANGED <<number, it, depth>>
    /\ UNCHANGED <<schema, json_data, skip_labels, runs>>

\* A comment POST is answered: the response hook next_comment runs inside
\* requests.post; when it does not post again, every pending add_comment
\* returns and create_issue returns True.
next_comment(status) ==
    /\ pc = "comment_post"
    /\ IF comment_created(status)
       THEN IF ~exhausted(json_data["comments"].v, it)
            THEN /\ trace' = trace \o
                       <<Resp(status, CommentJson(number, it)),
                         Report("created", CommentJson(number, it).html_url)>>
                       \o add_comment(number,
                              comments_next(json_data["comments"].v, it))
                 /\ it' = it + 1
                 /\ depth' = pending_after_hook_post(depth)
                 /\ UNCHANGED <<pc, ret>>
            ELSE /\ trace' = trace \o
                       <<Resp(status, CommentJson(number, it)),
                         Report("created", CommentJson(number, it).html_url),
                         Report("all_done", "")>>
                 /\ depth' = 0
                 /\ ret' = "True"
                 /\ pc' = "returned"
                 /\ UNCHANGED it
       ELSE /\ trace' = trace \o <<Resp(status, ErrorJson)>>
            /\ depth' = 0
            /\ ret' = "True"
            /\ pc' = "returned"
            /\ UNCHANGED it
    /\ UNCHANGED <<schema, json_data, skip_labels, number, runs>>

\* validate_json has returned; its locals are gone, the module-level
\* schema stays as the call left it.
Return ==
    /\ pc = "returned"
    /\ pc' = "idle"
    /\ json_data' = NoDoc
    /\ skip_labels' = FALSE
    /\ trace' = <<>>
    /\ number' = 0 /\ it' = 0 /\ depth' = 0 /\ ret' = "none"
    /\ UNCHANGED <<schema, runs>>

Next ==
    \/ \E d \in Descriptors, skip \in BOOLEAN : validate_json(d, skip)
    \/ \E L \in LabelSets : get_labels(L)
    \/ \E status \in Statuses, n \in IssueNumbers : create_issue(status, n)
    \/ \E status \in Statuses : next_comment(status)
    \/ Return

Spec == Init /\ [][Next]_vars

\* requests.get and requests.post block until the tracker answers: under
\* the assumption that every request is eventually answered, each of the
\* three response steps eventually happens once it is awaited.
Fairness ==
    /\ WF_vars(\E L \in LabelSets : get_labels(L))
    /\ WF_vars(\E status \in Statuses, n \in IssueNumbers :
                  create_issue(status, n))
    /\ WF_vars(\E status \in Statuses : next_comment(status))

LiveSpec == Spec /\ Fairness

\* ------------------------------------------------------------ projections
IsPost(e) == e[1] = "POST"
IsIssuePost(e) == e[1] = "POST" /\ e[2][Len(e[2])] = "issues"
IsCommentPost(e) == e[1] = "POST" /\ e[2][Len(e[2])] = "comments"
IsGet(e) == e[1] = "GET"
IsSleep(e) == e[1] = "sleep"
IsResp(e) == e[1] = "resp"
IsReport(e) == e[1] = "print"
IsReportOf(e, kind) == e[1] = "print" /\ e[2] = kind

CommentPosts == SelectSeq(trace, IsCommentPost)
PostedBodies == [i \in 1..Len(CommentPosts) |-> CommentPosts[i][3].body]

\* The strings of the descriptor's comments array (empty when the
\* descriptor has no comments array).
InputComments ==
    IF "comments" \in DOMAIN json_data /\ json_data["comments"].t = "array"
    THEN [i \in 1..Len(json_data["comments"].v) |->
             json_data["comments"].v[i].v]
    ELSE <<>>

\* Position p of the trace holds the response to the request at p - 1.
AnswersIssuePost(p) ==
    p \in 2..Len(trace) /\ IsResp(trace[p]) /\ IsIssuePost(trace[p - 1])
AnswersCommentPost(p) ==
    p \in 2..Len(trace) /\ IsResp(trace[p]) /\ IsCommentPost(trace[p - 1])

IssueAnswered201 ==
    \E p \in 1..Len(trace) : AnswersIssuePost(p) /\ trace[p][2] = 201

\* ------------------------------------------------------------------ claims

\* C1: the comment POSTs issued so far are a prefix of the descriptor's
\* comments in input order, and every comment POST that is followed by
\* another one was answered with status 201 before the next was issued.
C1_CommentsInOrderAfter201 ==
    /\ Len(PostedBodies) <= Len(InputComments)
    /\ \A i \in 1..Len(PostedBodies) : PostedBodies[i] = InputComments[i]
    /\ \A p \in 1..Len(trace), q \in 1..Len(trace) :
          (p < q /\ IsCommentPost(trace[p]) /\ IsCommentPost(trace[q]))
          => (AnswersCommentPost(p + 1) /\ trace[p + 1][2] = 201 /\ p + 1 < q)

C1_Witness ==
    /\ pc = "returned"
    /\ Len(PostedBodies) >= 2
    /\ PostedBodies[1] # PostedBodies[2]

\* C2: once a comment POST has been answered with a status other than 201,
\* no further POST is issued in that call, no completion notice is printed
\* and the iterator stays where it was.
C2_NoPostAfterFailedComment ==
    \A p \in 1..Len(trace) :
        (AnswersCommentPost(p) /\ trace[p][2] # 201)
        => /\ \A q \in (p + 1)..Len(trace) :
                 ~IsPost(trace[q]) /\ ~IsReportOf(trace[q], "all_done")
           /\ it = Len(SelectSeq(SubSeq(trace, 1, p), IsCommentPost))

C2_Witness ==
    /\ pc = "returned"
    /\ \E p \in 1..Len(trace) : AnswersCommentPost(p) /\ trace[p][2] # 201
    /\ Len(CommentPosts) < Len(InputComments)

\* C3: when the issue POST is answered with a status other than 201,
\* create_issue reports that status and returns False, and no comment POST
\* is issued.
C3_IssueFailureReported ==
    \A p \in 1..Len(trace) :
        (AnswersIssuePost(p) /\ trace[p][2] # 201)
        => /\ pc = "returned"
           /\ ret = "False"
           /\ Len(trace) = p + 1
           /\ IsReportOf(trace[p + 1], "error")
           /\ trace[p + 1][3] = trace[p][2]
           /\ Len(CommentPosts) = 0

C3_Witness ==
    /\ pc = "returned"
    /\ ret = "False"
    /\ Len(InputComments) > 0
    /\ \E p \in 1..Len(trace) : AnswersIssuePost(p) /\ trace[p][2] = 422

\* ------------------------------------------------- descriptors, as stated
\* The descriptor has the seven required properties in the required shape:
\* five strings and two arrays of strings.
WellFormed(d) ==
    /\ Keys \subseteq DOMAIN d
    /\ \A k \in ScalarKeys : d[k].t = "string"
    /\ \A k \in ArrayKeys :
          /\ d[k].t = "array"
          /\ \A i \in 1..Len(d[k].v) : d[k].v[i].t = "string"

LabelStrings(d) == {d["labels"].v[i].v : i \in 1..Len(d["labels"].v)}

\* The labels GET of the current call has been answered.
LabelsFetched ==
    Len(trace) >= 2 /\ IsGet(trace[1]) /\ IsResp(trace[2])
\* The label names in that answer.
FetchedLabels == trace[2][3].labels

ValidationFailedReported ==
    \E p \in 1..Len(trace) : IsReportOf(trace[p], "validation_failed")
LabelMessageReported ==
    \E p \in 1..Len(trace) : IsReportOf(trace[p], "label_validation_error")
NoPostIssued == \A p \in 1..Len(trace) : ~IsPost(trace[p])

\* C4: a call whose descriptor fails schema validation (a required
\* property absent or of the wrong shape, or, with label validation on, a
\* label outside the fetched label set) issues no POST; its only network
\* call is the labels GET, issued first and at most once; and the call
\* returns after printing the validation failure.
C4_InvalidDescriptorNeverPosts ==
    (/\ pc # "idle"
     /\ \/ ~WellFormed(json_data)
        \/ /\ ~skip_labels
           /\ LabelsFetched
           /\ ~(LabelStrings(json_data) \subseteq FetchedLabels))
    => /\ NoPostIssued
       /\ \A p \in 1..Len(trace) : IsGet(trace[p]) => p = 1
       /\ pc \in {"get_labels", "returned"}
       /\ pc = "returned" =>
             /\ ValidationFailedReported
             /\ IsReport(trace[Len(trace)])
             /\ ret = "none"

C4_Witness ==
    /\ pc = "returned"
    /\ "title" \notin DOMAIN json_data
    /\ LabelsFetched
    /\ ValidationFailedReported

\* C5: with label validation on and L the label set the tracker answered
\* with, a well-formed descriptor whose labels are all in L goes on to the
\* issue POST with nothing reported, and one with a label outside L is
\* rejected with the label-specific message and no POST.
C5_LabelsCheckedAgainstFetchedSet ==
    (/\ ~skip_labels
     /\ LabelsFetched
     /\ WellFormed(json_data))
    => IF LabelStrings(json_data) \subseteq FetchedLabels
       THEN /\ Len(trace) >= 3
            /\ IsIssuePost(trace[3])
            /\ ~ValidationFailedReported
       ELSE /\ pc = "returned"
            /\ NoPostIssued
            /\ Len(trace) = 5
            /\ IsReportOf(trace[3], "validation_failed")
            /\ IsReportOf(trace[4], "label_validation_error")
            /\ trace[4][3] = LABEL_VALIDATION_ERROR
            /\ IsReportOf(trace[5], "message")

C5_Witness ==
    /\ pc = "returned"
    /\ ~skip_labels
    /\ LabelsFetched
    /\ WellFormed(json_data)
    /\ LabelMessageReported
    /\ LabelStrings(json_data) \cap FetchedLabels # {}
    /\ LabelStrings(json_data) \ FetchedLabels # {}

\* C6: in a call made with skip_labels set, a well-formed descriptor is
\* accepted whatever its labels are: the call goes straight to the issue
\* POST and reports no validation failure.
C6_SkipAcceptsAnyLabels ==
    (/\ pc # "idle"
     /\ skip_labels
     /\ WellFormed(json_data))
    => /\ ~ValidationFailedReported
       /\ Len(trace) >= 1
       /\ IsIssuePost(trace[1])

\* Position in the trace of the i-th comment POST.
CommentPostPos(i) ==
    CHOOSE p \in 1..Len(trace) :
        /\ IsCommentPost(trace[p])
        /\ Len(SelectSeq(SubSeq(trace, 1, p), IsCommentPost)) = i

\* Number of comment POSTs answered with 201 so far.
CommentsCreated ==
    Cardinality({p \in 1..Len(trace) :
                    AnswersCommentPost(p) /\ trace[p][2] = 201})

IsMainReport(e) ==
    \/ IsReportOf(e, "imported")
    \/ IsReportOf(e, "created")
    \/ IsReportOf(e, "all_done")

Sleeps == SelectSeq(trace, IsSleep)

\* C7: after a 201 to the issue POST of a descriptor with n >= 1 comments,
\* the reports are the issue URL, then one 'created' per comment answered
\* with 201 (the URL in that answer, in posting order), then the completion
\* notice, which is printed once and exactly when all n comments were
\* answered with 201.
C7_ReportsInOrder ==
    (IssueAnswered201 /\ Len(InputComments) >= 1)
    => LET issue == CHOOSE p \in 1..Len(trace) : AnswersIssuePost(p)
           k == CommentsCreated
       IN  SelectSeq(trace, IsMainReport) =
              <<Report("imported", trace[issue][3].html_url)>> \o
              [i \in 1..k |->
                  Report("created", trace[CommentPostPos(i) + 1][3].html_url)]
              \o (IF k = Len(InputComments)
                  THEN <<Report("all_done", "")>>
                  ELSE <<>>)

C7_Witness ==
    /\ pc = "returned"
    /\ IssueAnswered201
    /\ Len(InputComments) >= 2
    /\ CommentsCreated = Len(InputComments)
    /\ IsReportOf(trace[Len(trace)], "all_done")

\* C8 as stated: a call that has issued k >= 1 comment POSTs has paused
\* exactly k - 1 times, never before the first comment POST.
C8_NoPauseBeforeFirstComment ==
    Len(CommentPosts) >= 1
    => /\ Len(Sleeps) = Len(CommentPosts) - 1
       /\ ~IsSleep(trace[CommentPostPos(1) - 1])

\* C8 as amended: every comment POST, the first included, is immediately
\* preceded by one one-unit pause, and there is no other pause: k comment
\* POSTs come with exactly k pauses.
C8_PauseBeforeEveryComment ==
    /\ Len(Sleeps) = Len(CommentPosts)
    /\ \A p \in 1..Len(trace) :
          /\ IsCommentPost(trace[p]) => (p > 1 /\ trace[p - 1] = Sleep(1))
          /\ IsSleep(trace[p]) =>
                (p < Len(trace) /\ IsCommentPost(trace[p + 1]))

C8_Witness ==
    /\ pc = "returned"
    /\ Len(CommentPosts) >= 2
    /\ Len(Sleeps) = Len(CommentPosts)

\* C9: after a 201 to the issue POST, create_issue returns True whatever
\* the comment POSTs are answered with, and a comment answered with a
\* status other than 201 is followed by no report at all.
C9_SuccessDespiteCommentFailure ==
    IssueAnswered201
    => /\ ret # "False"
       /\ pc = "returned" => ret = "True"
       /\ \A p \in 1..Len(trace) :
             /\ ~IsReportOf(trace[p], "error")
             /\ (AnswersCommentPost(p) /\ trace[p][2] # 201)
                => (p = Len(trace) /\ pc = "returned")

C9_Witness ==
    /\ pc = "returned"
    /\ ret = "True"
    /\ AnswersCommentPost(Len(trace))
    /\ trace[Len(trace)][2] # 201
    /\ Len(CommentPosts) < Len(InputComments)

\* The validation error the current call reported.
ReportedError == trace[Len(trace)][3]

ValidationFailureReturned ==
    pc = "returned" /\ ValidationFailedReported

\* The reported error is a failure the descriptor really has.
ErrorIsGenuine(e) ==
    CASE e.validator = "required" -> e.key \notin DOMAIN json_data
      [] e.validator = "type" ->
            /\ e.key \in DOMAIN json_data
            /\ IF e.key \in ScalarKeys
               THEN json_data[e.key].t # "string"
               ELSE \/ json_data[e.key].t # "array"
                    \/ \E i \in 1..Len(json_data[e.key].v) :
                          json_data[e.key].v[i].t # "string"
      [] e.validator = "enum" ->
            /\ e.key = "labels"
            /\ "enum" \in DOMAIN schema
            /\ \E i \in 1..Len(json_data["labels"].v) :
                  \/ json_data["labels"].v[i].t # "string"
                  \/ json_data["labels"].v[i].v \notin schema.enum

\* C10 as stated: the label message is printed exactly when the property
\* that failed is labels, a missing labels property included.
C10_LabelMessageForLabelsField ==
    ValidationFailureReturned
    => (LabelMessageReported <=> ReportedError.key = "labels")

\* C10 as amended: the label message (followed by the error's message) is
\* printed exactly when the failure lies in a labels value that is present
\* (wrong shape, a non-string item, an item outside the enum); a missing
\* labels property, like a failure of any other property, is reported as
\* the raw validation error without the label message.
C10_LabelMessageForLabelsValue ==
    ValidationFailureReturned
    => /\ ErrorIsGenuine(ReportedError)
       /\ IF ReportedError.key = "labels"
             /\ ReportedError.validator # "required"
          THEN /\ LabelMessageReported
               /\ IsReportOf(trace[Len(trace)], "message")
               /\ IsReportOf(trace[Len(trace) - 1], "label_validation_error")
          ELSE /\ ~LabelMessageReported
               /\ IsReportOf(trace[Len(trace)], "raw_error")

C10_Witness ==
    /\ ValidationFailureReturned
    /\ "labels" \notin DOMAIN json_data
    /\ ReportedError.key = "labels"
    /\ IsReportOf(trace[Len(trace)], "raw_error")

IssuePosts == SelectSeq(trace, IsIssuePost)

\* How many lines of the formatted body carry the value v.
LinesWith(body, v) == Cardinality({i \in 1..Len(body) : body[i][2] = v})

\* C11: the body sent in the issue POST has the descriptor's url, browser
\* and os on the lines labeled URL, Browser / Version and Operating System,
\* in that order, then the free text on a line of its own, each value
\* exactly once; the title and the labels are sent as they are in the
\* descriptor, the labels in the same order.
C11_IssueBodyFormat ==
    \A p \in 1..Len(trace) :
        IsIssuePost(trace[p])
        => LET sent == trace[p][3]
               d == json_data
           IN  /\ DOMAIN sent = {"body", "title", "labels"}
               /\ \E u, b, o, x \in 1..Len(sent.body) :
                     /\ u < b /\ b < o /\ o < x
                     /\ sent.body[u] = <<"**URL**: ", d["url"].v>>
                     /\ sent.body[b] = <<"**Browser / Version**: ",
                                         d["browser"].v>>
                     /\ sent.body[o] = <<"**Operating System**: ",
                                         d["os"].v>>
                     /\ sent.body[x] = <<"", d["body"].v>>
                     /\ x = Len(sent.body)
               /\ \A k \in {"url", "browser", "os", "body"} :
                     LinesWith(sent.body, d[k].v) = 1
               /\ sent.title = d["title"].v
               /\ Len(sent.labels) = Len(d["labels"].v)
               /\ \A i \in 1..Len(sent.labels) :
                     sent.labels[i] = d["labels"].v[i].v

C11_Witness ==
    /\ Len(IssuePosts) = 1
    /\ Len(IssuePosts[1][3].labels) = 2
    /\ IssuePosts[1][3].labels[1] # IssuePosts[1][3].labels[2]

Gets == SelectSeq(trace, IsGet)

\* C12: a call with label validation on issues exactly one GET, to the
\* labels endpoint, as its first step; once answered, the enum in force is
\* exactly the set of names in that answer, whatever an earlier call left
\* in the schema, and a well-formed descriptor is rejected exactly when one
\* of its labels is outside that set.  A call with label validation
\* skipped issues no GET.
C12_OneFreshLabelsGet ==
    pc # "idle"
    => IF skip_labels
       THEN Len(Gets) = 0
       ELSE /\ Len(Gets) = 1
            /\ trace[1] = Get(LabelsUri)
            /\ pc = "get_labels" <=> Len(trace) = 1
            /\ LabelsFetched =>
                  /\ "enum" \in DOMAIN schema
                  /\ schema.enum = FetchedLabels
                  /\ WellFormed(json_data) =>
                        (ValidationFailedReported <=>
                           ~(LabelStrings(json_data) \subseteq FetchedLabels))

C12_Witness ==
    /\ runs >= 2
    /\ ~skip_labels
    /\ LabelsFetched
    /\ FetchedLabels = {"ui"}
    /\ WellFormed(json_data)
    /\ LabelStrings(json_data) = {"ui"}
    /\ pc = "issue_post"

\* C13: every POST issued, the issue's and each comment's, carries the
\* configured token in its Authorization header, and the GET of the labels
\* endpoint carries no Authorization header.
C13_PostsAuthorizedGetNot ==
    \A p \in 1..Len(trace) :
        /\ IsPost(trace[p]) => trace[p][4] = OAUTH_TOKEN
        /\ IsGet(trace[p]) => trace[p][3] = "none"

C13_Witness ==
    /\ Len(Gets) = 1
    /\ Len(IssuePosts) = 1
    /\ Len(CommentPosts) >= 2

\* Place of a request in the order labels GET, issue POST, comment POSTs.
RequestRank(e) ==
    IF IsGet(e) THEN 0 ELSE IF IsIssuePost(e) THEN 1 ELSE 2

IsRequest(e) == IsGet(e) \/ IsPost(e)

\* C14: the requests of a call are the labels GET (present exactly when
\* label validation is on), then at most one issue POST, then the comment
\* POSTs; every comment POST comes after a 201 answer to the issue POST and
\* is addressed to the issue number in that answer.
C14_RequestOrder ==
    /\ \A p \in 1..Len(trace), q \in 1..Len(trace) :
          (p < q /\ IsRequest(trace[p]) /\ IsRequest(trace[q]))
          => /\ RequestRank(trace[p]) <= RequestRank(trace[q])
             /\ RequestRank(trace[q]) < 2 =>
                   RequestRank(trace[p]) < RequestRank(trace[q])
    /\ (\E p \in 1..Len(trace) : IsPost(trace[p]))
       => (~skip_labels <=> Len(Gets) = 1)
    /\ \A q \in 1..Len(trace) :
          IsCommentPost(trace[q])
          => \E p \in 1..(q - 1) :
                /\ AnswersIssuePost(p)
                /\ trace[p][2] = 201
                /\ trace[q][2] =
                      REPO_URI \o <<"issues", trace[p][3].number, "comments">>

C14_Witness ==
    /\ Len(Gets) = 1
    /\ Len(CommentPosts) >= 2
    /\ \E p \in 1..Len(trace) :
          AnswersIssuePost(p) /\ trace[p][2] = 201 /\ trace[p][3].number = 42

AllPosts == SelectSeq(trace, IsPost)

\* Indices of the comments whose POST was answered with a status other
\* than 201.
FailedComments ==
    {i \in 1..Len(CommentPosts) :
        LET p == CommentPostPos(i) + 1
        IN  AnswersCommentPost(p) /\ trace[p][2] # 201}

\* Position of the first comment answered with a status other than 201, or
\* the number of comments when there is none.
FirstFailure ==
    IF FailedComments = {}
    THEN Len(InputComments)
    ELSE CHOOSE i \in FailedComments : \A j \in FailedComments : i <= j

NoRetry ==
    /\ Len(IssuePosts) <= 1
    /\ Len(CommentPosts) <= Len(InputComments)
    /\ \A i \in 1..Len(CommentPosts) :
          CommentPosts[i][3].body = InputComments[i]
    /\ Len(AllPosts) <= 1 + Len(InputComments)

\* C15 as stated: no request is retried, and a finished call that got as
\* far as the issue POST has issued exactly 1 + k POSTs, k being the
\* position of the first comment answered with a status other than 201, or
\* the number of comments when there is none.
C15_PostCountAnyRun ==
    /\ NoRetry
    /\ (pc = "returned" /\ Len(IssuePosts) = 1)
       => Len(AllPosts) = 1 + FirstFailure

\* C15 as amended: no request is retried; a finished call has issued
\* exactly 1 + k POSTs when its issue POST was answered with 201, exactly
\* one POST when the issue POST was answered with another status, and none
\* when validation failed.
C15_PostCountByOutcome ==
    /\ NoRetry
    /\ pc = "returned"
       => Len(AllPosts) =
             IF ValidationFailedReported THEN 0
             ELSE IF IssueAnswered201 THEN 1 + FirstFailure
             ELSE 1

C15_Witness ==
    /\ pc = "returned"
    /\ IssueAnswered201
    /\ Len(InputComments) = 2
    /\ FirstFailure = 1
    /\ Len(AllPosts) = 2

CommentImporterEntered ==
    \/ depth > 0
    \/ it > 0
    \/ Len(CommentPosts) > 0
    \/ Len(Sleeps) > 0
    \/ \E p \in 1..Len(trace) :
          IsReportOf(trace[p], "importing_comments")
          \/ IsReportOf(trace[p], "all_done")

\* C16: when the issue POST of a descriptor with no comments is answered
\* with 201, import_comments is not called: the call ends with exactly one
\* POST issued, no completion notice, and create_issue returning True.
\* import_comments is entered only after a 201 to the issue POST of a
\* descriptor with at least one comment, and never raises.
C16_NoCommentsNoImporter ==
    /\ (IssueAnswered201 /\ Len(InputComments) = 0)
       => /\ pc = "returned"
          /\ ret = "True"
          /\ Len(AllPosts) = 1
          /\ ~CommentImporterEntered
    /\ CommentImporterEntered
       => (IssueAnswered201 /\ Len(InputComments) >= 1)
    /\ pc # "raised"

C16_Witness ==
    /\ pc = "returned"
    /\ IssueAnswered201
    /\ Len(InputComments) = 0
    /\ ret = "True"

Running == pc \in {"get_labels", "issue_post", "comment_post"}

\* The four ways a call can end.
EndedValidationFailure == ValidationFailedReported
EndedIssueFailure ==
    \E p \in 1..Len(trace) :
        /\ AnswersIssuePost(p)
        /\ trace[p][2] # 201
        /\ p < Len(trace)
        /\ IsReportOf(trace[p + 1], "error")
EndedStalled == FailedComments # {}
EndedAllPosted ==
    IssueAnswered201 /\ CommentsCreated = Len(InputComments)

OutcomeCount ==
    Cardinality({o \in {"validation", "issue", "stalled", "posted"} :
        \/ o = "validation" /\ EndedValidationFailure
        \/ o = "issue" /\ EndedIssueFailure
        \/ o = "stalled" /\ EndedStalled
        \/ o = "posted" /\ EndedAllPosted})

\* C17: provided every request is eventually answered, a call that is
\* waiting for an answer eventually returns, and a call that has returned
\* ended in exactly one of: validation failure reported, issue-creation
\* failure reported, comment chain stalled after a status other than 201,
\* all comments posted.
C17_EveryRunTerminates ==
    /\ Running ~> (pc = "returned")
    /\ [](pc = "returned" => OutcomeCount = 1)

C17_Witness ==
    /\ pc = "returned"
    /\ runs >= 2
    /\ ~skip_labels
    /\ EndedAllPosted
    /\ Len(InputComments) >= 2

\* C18: while the comment chain is waiting for an answer, the add_comment
\* calls that have not returned are as many as the comment POSTs issued so
\* far (at most the number of comments); none of them returns before the
\* chain ends, and then, in the step that answers the last POST issued and
\* issues no other, they all return.
C18_ChainIsNested ==
    /\ [](pc = "comment_post"
          => /\ depth = Len(CommentPosts)
             /\ depth >= 1
             /\ depth <= Len(InputComments))
    /\ [][depth' < depth
          => /\ pc = "comment_post"
             /\ pc' = "returned"
             /\ depth' = 0
             /\ Len(CommentPosts') = Len(CommentPosts)]_vars

C18_Witness ==
    /\ pc = "comment_post"
    /\ depth = 2
    /\ Len(CommentPosts) = 2

====
